---- MODULE Spec2Model ----
(***************************************************************************)
(* A model of src/predict.py: Predictor.predict and the chunked pipeline   *)
(* behind it (decode, ffmpeg normalisation, ffprobe, ffmpeg segment        *)
(* extraction, rhubarb per segment, merge and sort, temp-file cleanup).    *)
(* The external tools are black boxes: every outcome the code can observe  *)
(* (exit status, whether the output file was written, whether it parses,   *)
(* what it parses to) is a nondeterministic input of the step that runs    *)
(* the tool.  Durations and cue times are whole seconds.                   *)
(***************************************************************************)
EXTENDS Integers, Sequences, FiniteSets, TLC

VARIABLES
    pc,           \* position of the run: "idle", "decode", "convert", "probe",
                  \* "extract", "analyze", "merge", "done"
    audio_data,   \* predict's audio_data argument, by kind
    wake_up,      \* predict's wake_up argument
    timestamp,    \* the run's timestamp (line 39), 0 before it is taken
    files,        \* the paths that exist under /tmp
    created,      \* the paths written during the run (history)
    duration,     \* the probed duration (line 135), -1 before the probe
    chunks,       \* split_audio_into_chunks' list of chunk paths
    extracted,    \* the ffmpeg extraction of each chunk: window and outcome (history)
    all_results,  \* process_audio_with_rhubarb's all_results
    analysis,     \* the rhubarb outcome of each analysed chunk (history)
    log,          \* the stages executed so far, in order, as <<stage, detail>>:
                  \* the chunk index of "extract", "analyze" and "unlink", the exit
                  \* status of "convert", 1 for a "decode" or "probe" that raised,
                  \* 0 otherwise (history)
    failure,      \* the stage whose exception ended the run, "none" otherwise
    response,     \* the object predict returns as JSON, <<>> before it returns
    run,          \* 1 for a request, 2 for the same request made once more
    first,        \* what the first of two identical requests met and returned
    now,          \* the clock of the host, in milliseconds
    runs          \* the requests in progress side by side: position, timestamp
                  \* and the temp paths used so far

vars == <<pc, audio_data, wake_up, timestamp, files, created, duration, chunks,
          extracted, all_results, analysis, log, failure, response,
          run, first, now, runs>>

\* The state of one request, of a request made twice, and of the requests made
\* side by side.
request == <<pc, audio_data, wake_up, timestamp, files, created, duration,
             chunks, extracted, all_results, analysis, log, failure, response>>
replay == <<run, first>>
parallel == <<now, runs>>

----------------------------------------------------------------------------
(* Bounds of the model.                                                    *)

\* Probed durations are 0, W/2, W, ..., MaxHalfWindows * W/2.
MaxHalfWindows == 4
\* The cues all segments of one run return together.
MaxCues == 2
\* Segment-local cue starts are 0..MaxStart.
MaxStart == 1
\* line 126
chunk_duration == 30

Visemes == {"A", "B"}

Durations == {(k * chunk_duration) \div 2 : k \in 0..MaxHalfWindows}

\* line 39: one run, one reading of the clock
Timestamps == {1}

\* The millisecond clock reads 1..MaxNow.
MaxNow == 2
\* The requests made side by side.
Workers == {1, 2}

AudioKinds == {"empty", "blank", "malformed", "valid"}

----------------------------------------------------------------------------
(* Temp paths: <<role, timestamp, index>>.                                 *)

\* line 54: /tmp/input-{timestamp}.wav
input_path(ts) == <<"input", ts, 0>>

\* line 55: /tmp/output-{timestamp}.json
output_path(ts) == <<"output", ts, 0>>

\* line 64: /tmp/wav-{timestamp}.wav
wav_path(ts) == <<"wav", ts, 0>>

\* line 142: /tmp/chunk-{timestamp}-{i}.wav
chunk_path(ts, i) == <<"chunk", ts, i>>

\* line 71: {output_path}-chunk{i}.json
chunk_output(ts, i) == <<"output-chunk", ts, i>>

----------------------------------------------------------------------------
(* Values.                                                                 *)

Cue(s, v) == [start |-> s, end |-> s + 1, value |-> v]

CueSet == {Cue(s, v) : s \in 0..MaxStart, v \in Visemes}

\* A mouthCues entry without a start field.
CueNoStart == [end |-> 1, value |-> "A"]

SeqsUpTo(S, n) == UNION {[1..k -> S] : k \in 0..n}

\* What json.load can return (line 186), by shape.
JsonNull == [type |-> "null"]
JsonNumber == [type |-> "number"]
JsonString == [type |-> "string"]
JsonList == [type |-> "list"]
JsonObjectNoKey == [type |-> "object"]
JsonCues(cues) == [type |-> "object", mouthCues |-> cues]

\* lines 182 and 192: {"mouthCues": []}
EmptyResult == JsonCues(<<>>)

RECURSIVE Flatten(_)
Flatten(ss) ==
    IF ss = <<>> THEN <<>> ELSE Head(ss) \o Flatten(Tail(ss))

----------------------------------------------------------------------------
(* Pure helpers.                                                           *)

\* line 138: int(duration / chunk_duration) + 1; int() truncates towards zero
num_chunks(d) ==
    (IF d >= 0 THEN d \div chunk_duration ELSE -((-d) \div chunk_duration)) + 1

\* Mutation of start_time: the chunk index taken as 1-based.
StartTimeOneBased(i) == (i + 1) * chunk_duration

\* line 141: start_time = i * chunk_duration
start_time(i) == i * chunk_duration

\* Mutation of ConversionFailed: the exit status of ffmpeg is not looked at.
ConversionNeverFailed(o) == FALSE

\* line 113: result.returncode != 0
ConversionFailed(o) == o.rc # 0

\* lines 198-203: every listed path that exists is unlinked
cleanup_temp_files(fs, file_paths) ==
    fs \ {file_paths[i] : i \in DOMAIN file_paths}

\* line 81, left operand: None is falsy; the other shapes modelled are truthy
Truthy(result) == result.type # "null"

\* line 81, right operand: `in` on a number raises TypeError
ContainsRaises(result) == result.type = "number"

\* line 81, right operand: key test on an object; on the string and the list
\* modelled (neither holds "mouthCues") the test is false
ContainsMouthCues(result) ==
    result.type = "object" /\ "mouthCues" \in DOMAIN result

\* lines 79-82: the concatenation of the results' mouthCues, in segment order
mouth_cues(results) ==
    Flatten([i \in DOMAIN results |->
                IF Truthy(results[i]) /\ ContainsMouthCues(results[i])
                THEN results[i].mouthCues ELSE <<>>])

\* lines 80-85: the exception the merge raises, "none" when it raises none
MergeError(results) ==
    IF \E i \in DOMAIN results : Truthy(results[i]) /\ ContainsRaises(results[i])
    THEN "TypeError"
    ELSE IF \E i \in DOMAIN mouth_cues(results) :
                "start" \notin DOMAIN mouth_cues(results)[i]
         THEN "KeyError"
         ELSE "none"

\* Mutation of InsertByStart: an element goes before those whose key equals
\* its own (an unstable sort).
RECURSIVE InsertBeforeEqual(_, _)
InsertBeforeEqual(sorted, c) ==
    IF sorted = <<>> THEN <<c>>
    ELSE IF Head(sorted).start < c.start
         THEN <<Head(sorted)>> \o InsertBeforeEqual(Tail(sorted), c)
         ELSE <<c>> \o sorted

\* line 85: list.sort is stable; an element goes after those whose key is <= its own
RECURSIVE InsertByStart(_, _)
InsertByStart(sorted, c) ==
    IF sorted = <<>> THEN <<c>>
    ELSE IF Head(sorted).start <= c.start
         THEN <<Head(sorted)>> \o InsertByStart(Tail(sorted), c)
         ELSE <<c>> \o sorted

RECURSIVE SortFrom(_, _)
SortFrom(acc, rest) ==
    IF rest = <<>> THEN acc
    ELSE SortFrom(InsertByStart(acc, Head(rest)), Tail(rest))

\* line 85: mouth_cues.sort(key=lambda x: x["start"])
SortByStart(cues) == SortFrom(<<>>, cues)

\* lines 25-29
WakeResponse ==
    [status |-> "OK", message |-> "Rhubarb model is ready", mouthCues |-> <<>>]

\* lines 33-36
NoAudioResponse == [error |-> "No audio data provided", mouthCues |-> <<>>]

\* Mutation of ErrorResponse: the error response without its mouthCues key.
ErrorResponseWithoutCues(msg) == [error |-> msg]

\* line 48
ErrorResponse(msg) == [error |-> msg, mouthCues |-> <<>>]

\* Mutation of SuccessResponse: the cues stamped with the time of the run.
SuccessResponseStamped(cues) ==
    [mouthCues |-> [i \in DOMAIN cues |->
                        [cues[i] EXCEPT !.start = @ + timestamp]]]

\* lines 90 and 45
SuccessResponse(cues) == [mouthCues |-> cues]

\* lines 180-192: what run_rhubarb returns for an outcome of the analyzer
run_rhubarb(outcome) ==
    IF outcome.rc # 0 THEN EmptyResult
    ELSE IF ~outcome.wrote \/ ~outcome.parses THEN EmptyResult
    ELSE outcome.data

\* The cues the results so far hold.
CueCount(results) ==
    Len(Flatten([i \in DOMAIN results |->
                    IF "mouthCues" \in DOMAIN results[i]
                    THEN results[i].mouthCues ELSE <<>>]))

\* What the analyzer's output file can parse to, with at most n cues.
JsonValues(n) ==
    {JsonNull, JsonNumber, JsonString, JsonList, JsonObjectNoKey,
     JsonCues(<<CueNoStart>>)}
    \cup {JsonCues(cs) : cs \in SeqsUpTo(CueSet, n)}

\* The outcomes of one rhubarb invocation the code can tell apart: exit status,
\* whether the output file was written, whether it parses, and to what.
RhubarbOutcomes(n) ==
    {[rc |-> 1, wrote |-> w, parses |-> FALSE, data |-> JsonNull] : w \in BOOLEAN}
    \cup {[rc |-> 0, wrote |-> w, parses |-> FALSE, data |-> JsonNull] : w \in BOOLEAN}
    \cup {[rc |-> 0, wrote |-> TRUE, parses |-> TRUE, data |-> d] : d \in JsonValues(n)}

\* The outcomes of the ffmpeg invocation of convert_to_wav: exit status and
\* whether the output file was written (a failed run may leave a partial file).
FfmpegOutcomes ==
    {[rc |-> 0, wrote |-> TRUE], [rc |-> 1, wrote |-> TRUE], [rc |-> 1, wrote |-> FALSE]}

\* The outcomes of the ffmpeg invocation that extracts a chunk. Line 156 drops
\* the completed process, exit status included: all the run can observe later
\* is whether the chunk file was written.
ExtractOutcomes == {[wrote |-> TRUE], [wrote |-> FALSE]}

----------------------------------------------------------------------------
(* The run.                                                                *)

Init ==
    /\ pc = "idle"
    /\ audio_data = "empty"
    /\ wake_up = FALSE
    /\ timestamp = 0
    /\ files = {}
    /\ created = {}
    /\ duration = -1
    /\ chunks = <<>>
    /\ extracted = <<>>
    /\ all_results = <<>>
    /\ analysis = <<>>
    /\ log = <<>>
    /\ failure = "none"
    /\ response = <<>>
    /\ run = 1
    /\ first = <<>>
    /\ now = 1
    /\ runs = [r \in Workers |-> [pc |-> "idle", timestamp |-> 0, paths |-> {}]]

\* Mutation of Raise: the except block without its cleanup call.
RaiseWithoutCleanup(fs, lg, stage, msg) ==
    /\ files' = fs
    /\ log' = lg
    /\ failure' = stage
    /\ response' = ErrorResponse(msg)
    /\ pc' = "done"

\* lines 92-95 and 47-48: an exception raised in stage `stage` with the
\* filesystem as `fs`: cleanup of the input and output paths, then the error response
Raise(fs, lg, stage, msg) ==
    /\ files' = cleanup_temp_files(fs, <<input_path(timestamp), output_path(timestamp)>>)
    /\ log' = Append(lg, <<"cleanup", 0>>)
    /\ failure' = stage
    /\ response' = ErrorResponse(msg)
    /\ pc' = "done"

\* Mutation of NoAudio: the test without `audio_data.strip() == ""`.
NoAudioOnlyEmpty(a) == a = "empty"

\* line 32: not audio_data or audio_data.strip() == ""
NoAudio(a) == a \in {"empty", "blank"}

\* Mutation of Predict: the audio data validated before the wake-up check.
PredictValidatesFirst(a, w, t) ==
    /\ pc = "idle"
    /\ audio_data' = a
    /\ wake_up' = w
    /\ \/ /\ NoAudio(a)
          /\ response' = NoAudioResponse
          /\ pc' = "done"
          /\ UNCHANGED timestamp
       \/ /\ ~NoAudio(a)
          /\ w
          /\ response' = WakeResponse
          /\ pc' = "done"
          /\ UNCHANGED timestamp
       \/ /\ ~NoAudio(a)
          /\ ~w
          /\ timestamp' = t
          /\ pc' = "decode"
          /\ UNCHANGED response
    /\ UNCHANGED <<files, created, duration, chunks, extracted, all_results,
                   analysis, log, failure>>
    /\ UNCHANGED <<replay, parallel>>

\* lines 22-42: predict up to the call of process_audio_with_rhubarb
Predict(a, w, t) ==
    /\ pc = "idle"
    /\ audio_data' = a
    /\ wake_up' = w
    /\ \/ /\ w
          /\ response' = WakeResponse
          /\ pc' = "done"
          /\ UNCHANGED timestamp
       \/ /\ ~w
          /\ NoAudio(a)
          /\ response' = NoAudioResponse
          /\ pc' = "done"
          /\ UNCHANGED timestamp
       \/ /\ ~w
          /\ ~NoAudio(a)
          /\ timestamp' = t
          /\ pc' = "decode"
          /\ UNCHANGED response
    /\ UNCHANGED <<files, created, duration, chunks, extracted, all_results,
                   analysis, log, failure>>
    /\ UNCHANGED <<replay, parallel>>

\* lines 59-61: base64.b64decode, then the input file is written
Decode ==
    /\ pc = "decode"
    /\ \/ /\ audio_data = "malformed"
          /\ Raise(files, Append(log, <<"decode", 1>>), "decode", "Incorrect padding")
          /\ UNCHANGED created
       \/ /\ audio_data = "valid"
          /\ files' = files \cup {input_path(timestamp)}
          /\ created' = created \cup {input_path(timestamp)}
          /\ log' = Append(log, <<"decode", 0>>)
          /\ pc' = "convert"
          /\ UNCHANGED <<failure, response>>
    /\ UNCHANGED <<audio_data, wake_up, timestamp, duration, chunks, extracted,
                   all_results, analysis>>
    /\ UNCHANGED <<replay, parallel>>

\* lines 64 and 97-119: convert_to_wav
ConvertToWav(o) ==
    /\ pc = "convert"
    /\ LET wav == wav_path(timestamp)
           fs == IF o.wrote THEN files \cup {wav} ELSE files
           lg == Append(log, <<"convert", o.rc>>)
       IN /\ created' = IF o.wrote THEN created \cup {wav} ELSE created
          /\ \/ /\ ConversionFailed(o)
                /\ Raise(fs, lg, "convert",
                         "Audio conversion failed: FFmpeg conversion failed")
             \/ /\ ~ConversionFailed(o)
                /\ files' = fs
                /\ log' = lg
                /\ pc' = "probe"
                /\ UNCHANGED <<failure, response>>
    /\ UNCHANGED <<audio_data, wake_up, timestamp, duration, chunks, extracted,
                   all_results, analysis>>
    /\ UNCHANGED <<replay, parallel>>

\* lines 129-138: ffprobe, float() of its output, the number of chunks
Probe ==
    /\ pc = "probe"
    /\ LET lg == Append(log, <<"probe", 0>>)
       IN \/ /\ Raise(files, Append(log, <<"probe", 1>>), "probe",
                      "Audio chunking failed: could not convert string to float")
             /\ UNCHANGED duration
          \/ /\ \E d \in Durations : duration' = d
             /\ log' = lg
             /\ pc' = "extract"
             /\ UNCHANGED <<files, failure, response>>
    /\ UNCHANGED <<audio_data, wake_up, timestamp, created, chunks, extracted,
                   all_results, analysis>>
    /\ UNCHANGED <<replay, parallel>>

\* lines 140-157: one iteration of the extraction loop
ExtractChunk(o) ==
    /\ pc = "extract"
    /\ LET i == Len(chunks)
           path == chunk_path(timestamp, i)
       IN /\ i < num_chunks(duration)
          /\ chunks' = Append(chunks, path)
          /\ extracted' = Append(extracted,
                 [ss |-> start_time(i), t |-> chunk_duration, wrote |-> o.wrote])
          /\ files' = IF o.wrote THEN files \cup {path} ELSE files
          /\ created' = IF o.wrote THEN created \cup {path} ELSE created
          /\ log' = Append(log, <<"extract", i>>)
          /\ pc' = IF i + 1 = num_chunks(duration) THEN "analyze" ELSE "extract"
    /\ UNCHANGED <<audio_data, wake_up, timestamp, duration, all_results,
                   analysis, failure, response>>
    /\ UNCHANGED <<replay, parallel>>

\* lines 70-76: one iteration of the analysis loop: run_rhubarb, append, os.unlink
AnalyzeChunk(o) ==
    /\ pc = "analyze"
    /\ LET i == Len(all_results)
           path == chunks[i + 1]
           out == chunk_output(timestamp, i)
           fs == IF o.wrote THEN files \cup {out} ELSE files
           lg == Append(log, <<"analyze", i>>)
       IN /\ i < Len(chunks)
          \* rhubarb cannot succeed on a chunk file that does not exist
          /\ path \notin files => (o.rc # 0 /\ ~o.wrote)
          /\ all_results' = Append(all_results, run_rhubarb(o))
          /\ analysis' = Append(analysis, o)
          /\ created' = IF o.wrote THEN created \cup {out} ELSE created
          /\ \/ /\ path \notin files
                /\ Raise(fs, lg, "unlink", <<"No such file or directory", path>>)
             \/ /\ path \in files
                /\ files' = fs \ {path}
                /\ log' = Append(lg, <<"unlink", i>>)
                /\ pc' = IF i + 1 = Len(chunks) THEN "merge" ELSE "analyze"
                /\ UNCHANGED <<failure, response>>
    /\ UNCHANGED <<audio_data, wake_up, timestamp, duration, chunks, extracted>>
    /\ UNCHANGED <<replay, parallel>>

\* lines 78-90 and 45: merge, sort, cleanup, the result returned
Merge ==
    /\ pc = "merge"
    /\ LET lg == Append(log, <<"merge", 0>>)
           err == MergeError(all_results)
       IN \/ /\ err # "none"
             /\ Raise(files, lg, "merge", err)
          \/ /\ err = "none"
             /\ files' = cleanup_temp_files(files,
                    <<input_path(timestamp), wav_path(timestamp),
                      output_path(timestamp)>>)
             /\ log' = Append(lg, <<"cleanup", 0>>)
             /\ response' = SuccessResponse(SortByStart(mouth_cues(all_results)))
             /\ pc' = "done"
             /\ UNCHANGED failure
    /\ UNCHANGED <<audio_data, wake_up, timestamp, created, duration, chunks,
                   extracted, all_results, analysis>>
    /\ UNCHANGED <<replay, parallel>>

Next ==
    \/ \E a \in AudioKinds, w \in BOOLEAN, t \in Timestamps : Predict(a, w, t)
    \/ Decode
    \/ \E o \in FfmpegOutcomes : ConvertToWav(o)
    \/ Probe
    \/ \E o \in ExtractOutcomes : ExtractChunk(o)
    \/ \E o \in RhubarbOutcomes(MaxCues - CueCount(all_results)) : AnalyzeChunk(o)
    \/ Merge

Spec == Init /\ [][Next]_vars

----------------------------------------------------------------------------
(* Vocabulary of the properties.                                           *)

\* process_audio_with_rhubarb was entered (line 42).
RanPipeline == timestamp # 0

\* The run ended in the error response of an exception (line 48).
RunFailed == pc = "done" /\ failure # "none"

\* process_audio_with_rhubarb returned a mouthCues result (line 90).
RunSucceeded == pc = "done" /\ RanPipeline /\ failure = "none"

\* The temp paths of the run: input, normalized WAV, each segment, each
\* per-segment analyzer output.
TempPaths ==
    {input_path(timestamp), wav_path(timestamp)}
    \cup {chunk_path(timestamp, i - 1) : i \in DOMAIN chunks}
    \cup {chunk_output(timestamp, i - 1) : i \in DOMAIN chunks}

\* How often the analyzer was invoked on chunk i (0-based).
AnalyzerCalls(i) == Cardinality({n \in DOMAIN log : log[n] = <<"analyze", i>>})

\* The cues segment i (1-based) contributed, as the analyzer adapter returned them.
SegmentCues(i) ==
    IF all_results[i].type = "object" /\ "mouthCues" \in DOMAIN all_results[i]
    THEN all_results[i].mouthCues ELSE <<>>

\* The concatenation of the segments' cues in segment order, segment k left out
\* (k = 0 leaves none out).
ConcatenationWithout(k) ==
    Flatten([i \in DOMAIN all_results |-> IF i = k THEN <<>> ELSE SegmentCues(i)])

IsSortedByStart(cues) ==
    \A i, j \in DOMAIN cues : i < j => cues[i].start <= cues[j].start

\* `merged` holds exactly the cues of `concat`, those of equal start in the
\* order they have in `concat`.
KeepsOrderOfTies(merged, concat) ==
    /\ Len(merged) = Len(concat)
    /\ \A s \in {concat[i].start : i \in DOMAIN concat} :
          LET AtStart(c) == c.start = s
          IN SelectSeq(merged, AtStart) = SelectSeq(concat, AtStart)

----------------------------------------------------------------------------
(* C1: after a run that ends in a raised failure, none of the files created *)
(* during the run remain: input, normalized WAV, every segment file and    *)
(* every per-segment analyzer output are absent when predict returns the   *)
(* error response.                                                         *)
C1_NoFileLeftAfterFailure ==
    RunFailed => (TempPaths \cap files = {} /\ created \cap files = {})

(* C2: after a run that succeeds, every temp path allocated during the run *)
(* has been removed before the result is returned: input, normalized WAV,  *)
(* all segment files and all per-segment analyzer output files.            *)
C2_NoFileLeftAfterSuccess ==
    RunSucceeded => (TempPaths \cap files = {} /\ created \cap files = {})

AnalyzerFailed(o) == o.rc # 0 \/ ~o.wrote \/ ~o.parses

AnalyzerSucceeded(o) ==
    /\ o.rc = 0 /\ o.wrote /\ o.parses
    /\ o.data.type = "object"
    /\ "mouthCues" \in DOMAIN o.data
    /\ \A i \in DOMAIN o.data.mouthCues : "start" \in DOMAIN o.data.mouthCues[i]

OnlySegmentFailed(k) ==
    /\ duration >= 0
    /\ Len(chunks) = num_chunks(duration)
    /\ Len(analysis) = Len(chunks)
    /\ k \in DOMAIN analysis
    /\ AnalyzerFailed(analysis[k])
    /\ \A j \in DOMAIN analysis \ {k} : AnalyzerSucceeded(analysis[j])

(* C3: in every run with N segments in which the analyzer fails on exactly *)
(* one segment k (non-zero exit, or an output file that is missing or      *)
(* cannot be parsed) and succeeds on the others, the run returns no error  *)
(* and its mouthCues are the merge of the cues of the other N-1 segments:  *)
(* none duplicated, none dropped, none reordered.                          *)
C3_OneFailedSegmentIsIsolated ==
    \A k \in DOMAIN analysis :
        (pc = "done" /\ OnlySegmentFailed(k)) =>
            /\ "error" \notin DOMAIN response
            /\ IsSortedByStart(response.mouthCues)
            /\ KeepsOrderOfTies(response.mouthCues, ConcatenationWithout(k))

\* The same, for the runs in which the file of segment k exists when line 76
\* unlinks it.
C3_IsolatedWhenChunkFileExists ==
    \A k \in DOMAIN analysis :
        (pc = "done" /\ OnlySegmentFailed(k) /\ extracted[k].wrote) =>
            /\ "error" \notin DOMAIN response
            /\ IsSortedByStart(response.mouthCues)
            /\ KeepsOrderOfTies(response.mouthCues, ConcatenationWithout(k))

\* A cue moved by the start offset of its segment.
Rebased(c, offset) ==
    [start |-> c.start + offset, end |-> c.end + offset, value |-> c.value]

(* C4: the merger rebases every cue to absolute time before sorting: for   *)
(* every segment i with start offset i*30 and every cue (start, end,       *)
(* value) the analyzer returned for it, the merged result contains         *)
(* (start + i*30, end + i*30, value), and the merged sequence is ordered   *)
(* by these absolute starts.                                               *)
C4_CuesRebasedToAbsoluteTime ==
    RunSucceeded =>
        /\ \A i \in DOMAIN all_results : \A n \in DOMAIN SegmentCues(i) :
              \E m \in DOMAIN response.mouthCues :
                  response.mouthCues[m] = Rebased(SegmentCues(i)[n], extracted[i].ss)
        /\ IsSortedByStart(response.mouthCues)

(* C5: in every successful run the returned mouthCues are sorted ascending *)
(* by start, and the sort is stable: cues of equal start appear in the     *)
(* order of the concatenation (lower segment first, and within a segment   *)
(* in the analyzer's output order).                                        *)
C5_SortedAndStable ==
    RunSucceeded =>
        /\ IsSortedByStart(response.mouthCues)
        /\ KeepsOrderOfTies(response.mouthCues, ConcatenationWithout(0))

\* A successful run whose result holds two different cues of equal start that
\* came from two different segments.
C5_Witness ==
    /\ RunSucceeded
    /\ Len(response.mouthCues) = 2
    /\ response.mouthCues[1].start = response.mouthCues[2].start
    /\ response.mouthCues[1] # response.mouthCues[2]
    /\ \E i, j \in DOMAIN all_results :
          i < j /\ Len(SegmentCues(i)) = 1 /\ Len(SegmentCues(j)) = 1

(* C6: for every probed duration D >= 0 and the window W = 30,             *)
(* split_audio_into_chunks produces exactly floor(D/W)+1 segments, one     *)
(* trailing segment included when D is a multiple of W, and the            *)
(* orchestrator invokes the analyzer once for each of them.                *)
C6_SegmentCountAndOneAnalysisEach ==
    (pc = "done" /\ duration >= 0) =>
        /\ Len(chunks) = (duration \div chunk_duration) + 1
        /\ \A i \in 0..(Len(chunks) - 1) : AnalyzerCalls(i) = 1

\* The count alone, once the extraction loop has ended, and no segment analysed twice.
C6_SegmentCount ==
    (pc \in {"analyze", "merge", "done"} /\ duration >= 0) =>
        /\ Len(chunks) = (duration \div chunk_duration) + 1
        /\ \A i \in 0..(Len(chunks) - 1) : AnalyzerCalls(i) <= 1
        /\ RunSucceeded => \A i \in 0..(Len(chunks) - 1) : AnalyzerCalls(i) = 1

\* The seconds of a stream of length d that ffmpeg -ss ss -t t extracts
\* (second n stands for the interval [n, n+1)).
Covered(ss, t, d) == {n \in 0..(d - 1) : ss <= n /\ n < ss + t}

Min(a, b) == IF a <= b THEN a ELSE b

(* C7: the segments are contiguous, non-overlapping and exhaustive:        *)
(* segment i is extracted from offset i*W with nominal length W, clamped   *)
(* to the end of the stream, so it covers [i*W, min((i+1)*W, D)); no two   *)
(* segments share an instant and their union is exactly [0, D).            *)
\* Stated where split_audio_into_chunks returns (line 159): no later step
\* changes the duration or the extractions.
C7_SegmentsPartitionTheStream ==
    (pc = "analyze" /\ analysis = <<>> /\ duration >= 0) =>
        LET W == chunk_duration
            Window(i) == Covered(extracted[i].ss, extracted[i].t, duration)
        IN /\ \A i \in DOMAIN extracted :
                 /\ extracted[i].ss = (i - 1) * W
                 /\ extracted[i].t = W
                 /\ Window(i) = {n \in 0..(duration - 1) :
                                    (i - 1) * W <= n /\ n < Min(i * W, duration)}
           /\ \A i, j \in DOMAIN extracted : i # j => Window(i) \cap Window(j) = {}
           /\ UNION {Window(i) : i \in DOMAIN extracted} = 0..(duration - 1)

\* A stream of one window and a half, cut into a full and a partial segment.
C7_Witness ==
    /\ pc = "analyze"
    /\ duration = chunk_duration + chunk_duration \div 2
    /\ Len(extracted) = 2
    /\ Covered(extracted[2].ss, extracted[2].t, duration)
          = chunk_duration..(duration - 1)

(* C8: when the extraction of one segment fails (the transcoder exits      *)
(* non-zero or writes no file for segment k), the run is not aborted: the  *)
(* other segments are still analysed, segment k contributes no cues, and   *)
(* predict returns a mouthCues result without an error key.                *)
C8_ExtractionFailureIsIsolated ==
    \A k \in DOMAIN extracted :
        (pc = "done" /\ ~extracted[k].wrote) =>
            /\ "error" \notin DOMAIN response
            /\ "mouthCues" \in DOMAIN response
            /\ Len(analysis) = Len(chunks)
            /\ SegmentCues(k) = <<>>

StageRank(stage) ==
    CASE stage = "decode" -> 1
      [] stage = "convert" -> 2
      [] stage = "probe" -> 3
      [] stage = "extract" -> 4
      [] stage \in {"analyze", "unlink"} -> 5
      [] stage = "merge" -> 6
      [] OTHER -> 0

\* The entry of the log that records a fatal failure, if there is one.
IsFatal(entry) ==
    \/ entry = <<"decode", 1>>
    \/ entry[1] = "convert" /\ entry[2] # 0
    \/ entry = <<"probe", 1>>

(* C9: when a fatal failure occurs (malformed base64 input, transcoder     *)
(* non-zero exit during normalization, prober output that is no number),   *)
(* no later pipeline stage is executed, and predict returns a response     *)
(* whose error field is set and whose mouthCues list is empty.             *)
C9_FatalFailureStopsThePipeline ==
    \A n \in DOMAIN log :
        (pc = "done" /\ IsFatal(log[n])) =>
            /\ \A m \in DOMAIN log :
                  m > n => (log[m][1] = "cleanup" /\ StageRank(log[m][1]) = 0)
            /\ n = Len(log) - 1
            /\ extracted = <<>> /\ analysis = <<>> /\ all_results = <<>>
            /\ "error" \in DOMAIN response
            /\ "mouthCues" \in DOMAIN response
            /\ response.mouthCues = <<>>

\* The transcoder failed during normalization and the run has ended.
C9_Witness ==
    /\ pc = "done"
    /\ \E n \in DOMAIN log : log[n][1] = "convert" /\ log[n][2] # 0
    /\ "error" \in DOMAIN response

(* C10: for every request and every outcome of the external tools, predict *)
(* returns a well-formed response: it always holds a mouthCues key, and    *)
(* whenever it holds an error key its mouthCues list is empty.             *)
C10_ResponseWellFormed ==
    pc = "done" =>
        /\ "mouthCues" \in DOMAIN response
        /\ "error" \in DOMAIN response => response.mouthCues = <<>>

\* Every position of the run but the last has a step to take: no exception
\* leaves predict without a response.
C10_NoExceptionEscapes == pc # "done" => ENABLED Next

\* A run that raised inside the analysis loop, after cues were collected.
C10_Witness ==
    /\ pc = "done"
    /\ failure = "unlink"
    /\ \E i \in DOMAIN all_results : SegmentCues(i) # <<>>
    /\ "error" \in DOMAIN response

(* C11: when wakeUp is true, for every value of audioData (empty, blank,   *)
(* valid or malformed), no pipeline operation is invoked, no temp file is  *)
(* created, and the response is the static readiness payload with status   *)
(* OK and an empty mouthCues list.                                         *)
C11_WakeUpBypassesThePipeline ==
    (pc # "idle" /\ wake_up) =>
        /\ pc = "done"
        /\ log = <<>> /\ timestamp = 0
        /\ files = {} /\ created = {}
        /\ DOMAIN response = {"status", "message", "mouthCues"}
        /\ response.status = "OK"
        /\ response.message = "Rhubarb model is ready"
        /\ response.mouthCues = <<>>

\* A wake-up call that carries no audio.
C11_Witness == pc = "done" /\ wake_up /\ audio_data = "empty"

(* C12: when wakeUp is false and audioData is empty or only whitespace,    *)
(* predict returns the error "No audio data provided" with an empty        *)
(* mouthCues list, invokes no pipeline operation and creates no temp file. *)
C12_NoAudioIsRejected ==
    (pc # "idle" /\ ~wake_up /\ audio_data \in {"empty", "blank"}) =>
        /\ pc = "done"
        /\ log = <<>> /\ timestamp = 0
        /\ files = {} /\ created = {}
        /\ DOMAIN response = {"error", "mouthCues"}
        /\ response.error = "No audio data provided"
        /\ response.mouthCues = <<>>

\* A request whose audio data is only whitespace.
C12_Witness == pc = "done" /\ ~wake_up /\ audio_data = "blank"

(* C13: a failure to remove a temp file (the path does not exist, or the    *)
(* removal raises) never fails the run and never changes the response, for *)
(* the input file, the normalized file and each segment file. Stated for a *)
(* segment file that is missing when its removal is due: the removal step  *)
(* passes, and the run fails only if the merge does.                       *)
C13_RemovalFailureNeverFailsTheRun ==
    \A k \in DOMAIN analysis :
        (pc = "done" /\ ~extracted[k].wrote) =>
            /\ failure # "unlink"
            /\ \E n \in DOMAIN log : log[n] = <<"unlink", k - 1>>
            /\ MergeError(all_results) = "none" => RunSucceeded

\* The same for the paths cleanup_temp_files removes: a run that failed in the
\* decoding, its input file never written, still ends in the error response of
\* the decoding.
C13_CleanupAbsorbsMissingFiles ==
    (pc = "done" /\ failure = "decode") =>
        /\ input_path(timestamp) \notin created
        /\ log[Len(log)] = <<"cleanup", 0>>
        /\ "error" \in DOMAIN response

\* The place of a stage in the order of process_audio_with_rhubarb, the cleanup
\* last.
PipelineRank(stage) == IF stage = "cleanup" THEN 7 ELSE StageRank(stage)

\* The stages the pipeline runs once.
SingleStages == {"decode", "convert", "probe", "merge", "cleanup"}

(* C16: the stages run in the order decode, normalize, probe, segment,     *)
(* analyze, merge, cleanup; none starts before the one before it has       *)
(* ended; the segments are extracted and analysed in ascending order, each *)
(* at most once; and a failure before the merge leads directly to the      *)
(* cleanup and the terminal error response. Stated entry by entry on the   *)
(* log: an entry follows one of its own stage or of the stage before.      *)
C16_StagesRunInOrder ==
    /\ \A n \in DOMAIN log :
          /\ n = 1 => log[n] \in {<<"decode", 0>>, <<"decode", 1>>}
          /\ n > 1 =>
                /\ PipelineRank(log[n - 1][1]) <= PipelineRank(log[n][1])
                /\ log[n][1] # "cleanup" =>
                      PipelineRank(log[n][1]) <= PipelineRank(log[n - 1][1]) + 1
                /\ log[n][1] \in SingleStages => log[n - 1][1] # log[n][1]
                /\ log[n][1] = "extract" =>
                      log[n][2] = IF log[n - 1][1] = "extract"
                                  THEN log[n - 1][2] + 1 ELSE 0
                /\ log[n][1] = "analyze" =>
                      \/ log[n - 1][1] = "extract" /\ log[n][2] = 0
                      \/ log[n - 1] = <<"unlink", log[n][2] - 1>>
                /\ log[n][1] = "unlink" => log[n - 1] = <<"analyze", log[n][2]>>
          /\ log[n][1] = "cleanup" => (n = Len(log) /\ pc = "done")
    /\ (pc = "done" /\ RanPipeline) => log[Len(log)] = <<"cleanup", 0>>
    /\ failure # "none" =>
          /\ pc = "done"
          /\ Len(log) >= 2
          /\ StageRank(log[Len(log) - 1][1]) = StageRank(failure)
          /\ "error" \in DOMAIN response
          /\ response.mouthCues = <<>>

\* A run of two segments that failed in the merge, every stage on its log.
C16_Witness ==
    /\ pc = "done"
    /\ failure = "merge"
    /\ Len(analysis) = 2
    /\ log[Len(log)] = <<"cleanup", 0>>

(* C19: each segment file is removed exactly once, immediately after the   *)
(* analysis of its segment and before the analysis of the next one, and    *)
(* the final cleanup does not remove it again.                             *)
C19_SegmentFileRemovedAfterItsAnalysis ==
    \A k \in DOMAIN extracted :
        (pc = "done" /\ extracted[k].wrote) =>
            /\ chunk_path(timestamp, k - 1) \notin files
            /\ Cardinality({n \in DOMAIN log : log[n] = <<"unlink", k - 1>>}) = 1
            /\ \A n \in DOMAIN log :
                  log[n] = <<"unlink", k - 1>> =>
                      log[n - 1] = <<"analyze", k - 1>>

\* The same, for the runs in which every segment file was written.
C19_WhenEveryChunkFileExists ==
    (\A j \in DOMAIN extracted : extracted[j].wrote) =>
        C19_SegmentFileRemovedAfterItsAnalysis

\* The analyzer exited with 0 and wrote a file that parses, to a value that is
\* no object holding a list of cues with a start each.
MalformedOutput(o) ==
    /\ o.rc = 0 /\ o.wrote /\ o.parses
    /\ ~AnalyzerSucceeded(o)

(* C20: an analyzer output that parses as JSON but has not the expected    *)
(* shape (null, a number, a string, a list, an object without mouthCues,   *)
(* or cues without a start) never aborts the run: the segment contributes  *)
(* no cues, the other segments are merged, no error is returned. Stated    *)
(* for the runs in which every segment file was written.                   *)
C20_MalformedOutputIsAbsorbed ==
    \A k \in DOMAIN analysis :
        (/\ pc = "done"
         /\ \A j \in DOMAIN extracted : extracted[j].wrote
         /\ MalformedOutput(analysis[k])) =>
            /\ failure = "none"
            /\ "error" \notin DOMAIN response
            /\ Len(analysis) = Len(chunks)
            /\ \A n \in DOMAIN response.mouthCues :
                  "start" \in DOMAIN response.mouthCues[n]

\* The same, for the shapes the test on line 81 tells apart without raising.
C20_AbsorbedShapes ==
    \A k \in DOMAIN analysis :
        (/\ pc = "done"
         /\ \A j \in DOMAIN extracted : extracted[j].wrote
         /\ \A j \in DOMAIN analysis :
               MalformedOutput(analysis[j]) =>
                   /\ analysis[j].data.type # "number"
                   /\ "mouthCues" \notin DOMAIN analysis[j].data
         /\ MalformedOutput(analysis[k])) =>
            /\ failure = "none"
            /\ "error" \notin DOMAIN response
            /\ Len(analysis) = Len(chunks)

----------------------------------------------------------------------------
(* The run with a tool that may never exit.                                *)

\* lines 112, 130-135, 145-156 and 178: subprocess.run is called without a
\* timeout, so it returns only when the child process exits; a child that
\* never exits leaves the run inside the call for ever.
Hang ==
    /\ pc \in {"convert", "probe", "extract", "analyze"}
    /\ pc' = "hung"
    /\ UNCHANGED <<audio_data, wake_up, timestamp, files, created, duration,
                   chunks, extracted, all_results, analysis, log, failure,
                   response, replay, parallel>>

NextHang ==
    \/ Next
    \/ Hang

\* A run takes its next step whenever it has one.
SpecHang == Init /\ [][NextHang]_vars /\ WF_vars(NextHang)

(* C17: a tool invocation that does not return is cut off by a timeout, so *)
(* the run always terminates, with a result or an error: a run that has    *)
(* not ended can take a step.                                              *)
C17_HungToolIsCutOff == pc = "done" \/ ENABLED NextHang

----------------------------------------------------------------------------
(* The run with a cancellation.                                            *)

\* The exceptions a cancellation can be delivered as: one that `except
\* Exception` catches, one that it lets through.
CancelKinds == {"Exception", "BaseException"}

\* lines 57-95 and 41-48: an exception raised in the run from outside, between
\* two steps of the pipeline. Line 92 catches Exception only and there is no
\* finally block: an exception of another kind leaves predict with no cleanup.
Cancel(kind) ==
    /\ pc \in {"decode", "convert", "probe", "extract", "analyze", "merge"}
    /\ \/ /\ kind = "Exception"
          /\ Raise(files, log, "cancel", "cancelled")
       \/ /\ kind = "BaseException"
          /\ failure' = "cancel"
          /\ pc' = "cancelled"
          /\ UNCHANGED <<files, log, response>>
    /\ UNCHANGED <<audio_data, wake_up, timestamp, created, duration, chunks,
                   extracted, all_results, analysis, replay, parallel>>

NextCancel ==
    \/ Next
    \/ \E kind \in CancelKinds : Cancel(kind)

SpecCancel == Init /\ [][NextCancel]_vars

(* C18: when a run is cancelled, the cleanup stage is still executed for   *)
(* every temp path the run has allocated so far.                           *)
C18_CancelledRunIsCleanedUp ==
    failure = "cancel" =>
        /\ TempPaths \cap files = {}
        /\ created \cap files = {}

----------------------------------------------------------------------------
(* The same request made twice, the tools answering the second time as     *)
(* they did the first time.                                                *)

\* The second request is made in a later millisecond than the first.
ReplayTimestamps == Timestamps \cup {t + 1 : t \in Timestamps}

\* The audio of the request made twice is of one segment or of two (-1: the
\* probe raised).
ReplayDurations == {-1, 0, chunk_duration}

\* lines 16 and 39: the second request carries the arguments of the first
SamePredict(a, w, t) ==
    IF run = 1 THEN t \in Timestamps
    ELSE a = first.audio_data /\ w = first.wake_up /\ t = first.timestamp + 1

\* line 112: ffmpeg exits as it did and writes its output as it did
SameConvert(o) ==
    run = 2 =>
        /\ \E n \in DOMAIN first.log : first.log[n] = <<"convert", o.rc>>
        /\ o.wrote = (wav_path(first.timestamp) \in first.created)

\* lines 130-135: ffprobe prints what it printed
SameProbe ==
    run = 2 =>
        /\ duration' = first.duration
        /\ (failure' = "probe") = (first.failure = "probe")

\* lines 145-156: ffmpeg writes the chunk if it wrote it
SameExtract(o) ==
    run = 2 => o.wrote = first.extracted[Len(extracted) + 1].wrote

\* line 178: rhubarb exits as it did and writes what it wrote
ReplayOutcomes ==
    IF run = 2 /\ pc = "analyze"
    THEN {first.analysis[Len(analysis) + 1]}
    ELSE RhubarbOutcomes(MaxCues - CueCount(all_results))

\* predict has returned and is called again: nothing of the first call is kept
\* but the files it left under /tmp.
Restart ==
    /\ pc = "done"
    /\ run = 1
    /\ run' = 2
    /\ first' = [audio_data |-> audio_data, wake_up |-> wake_up,
                 timestamp |-> timestamp, created |-> created,
                 duration |-> duration, extracted |-> extracted,
                 analysis |-> analysis, log |-> log, failure |-> failure,
                 response |-> response]
    /\ pc' = "idle"
    /\ audio_data' = "empty"
    /\ wake_up' = FALSE
    /\ timestamp' = 0
    /\ created' = {}
    /\ duration' = -1
    /\ chunks' = <<>>
    /\ extracted' = <<>>
    /\ all_results' = <<>>
    /\ analysis' = <<>>
    /\ log' = <<>>
    /\ failure' = "none"
    /\ response' = <<>>
    /\ UNCHANGED <<files, parallel>>

NextTwice ==
    \/ \E a \in AudioKinds, w \in BOOLEAN, t \in ReplayTimestamps :
          SamePredict(a, w, t) /\ Predict(a, w, t)
    \/ Decode
    \/ \E o \in FfmpegOutcomes : ConvertToWav(o) /\ SameConvert(o)
    \/ Probe /\ SameProbe /\ duration' \in ReplayDurations
    \/ \E o \in ExtractOutcomes : ExtractChunk(o) /\ SameExtract(o)
    \/ \E o \in ReplayOutcomes : AnalyzeChunk(o)
    \/ Merge
    \/ Restart

SpecTwice == Init /\ [][NextTwice]_vars

(* C15: two runs on identical input, the tools answering alike, return     *)
(* identical mouthCues, whatever the run identifier and the temp paths:    *)
(* the second run ends where the first ended, with the same cues.          *)
C15_SameInputSameCues ==
    (run = 2 /\ pc = "done") =>
        /\ failure = first.failure
        /\ response.mouthCues = first.response.mouthCues

\* The second of two successful runs over two segments has returned two cues,
\* under another timestamp than the first.
C15_Witness ==
    /\ run = 2
    /\ pc = "done"
    /\ RunSucceeded
    /\ timestamp # first.timestamp
    /\ Len(chunks) = 2
    /\ Len(response.mouthCues) = 2

\* The second run is never held up by the answers of the first.
C15_ReplayNeverStuck == (run = 2 /\ pc # "done") => ENABLED NextTwice

----------------------------------------------------------------------------
(* Requests made side by side.                                             *)

\* The stages in which a request writes a temp path, in order.
Stages == <<"decode", "convert", "split", "analyze", "cleanup">>

\* lines 54, 60, 64, 142 and 71: the path a request of timestamp ts writes in a
\* stage (the first chunk stands for the chunks)
PathOf(stage, ts) ==
    CASE stage = "decode" -> input_path(ts)
      [] stage = "convert" -> wav_path(ts)
      [] stage = "split" -> chunk_path(ts, 0)
      [] stage = "analyze" -> chunk_output(ts, 0)

\* The millisecond clock advances.
Tick ==
    /\ now < MaxNow
    /\ now' = now + 1
    /\ UNCHANGED <<request, replay, runs>>

\* line 39: a request reads the clock for its timestamp
Begin(r) ==
    /\ runs[r].pc = "idle"
    /\ runs' = [runs EXCEPT ![r] = [pc |-> "decode", timestamp |-> now,
                                    paths |-> {}]]
    /\ UNCHANGED <<request, replay, now>>

\* lines 59-76: a request writes the path of its stage and moves on
Write(r) ==
    /\ \E n \in 1..(Len(Stages) - 1) :
          /\ runs[r].pc = Stages[n]
          /\ runs' = [runs EXCEPT
                         ![r].paths = @ \cup {PathOf(Stages[n], runs[r].timestamp)},
                         ![r].pc = Stages[n + 1]]
    /\ UNCHANGED <<request, replay, now>>

\* lines 88-90: a request cleans up and returns
Finish(r) ==
    /\ runs[r].pc = "cleanup"
    /\ runs' = [runs EXCEPT ![r].pc = "done"]
    /\ UNCHANGED <<request, replay, now>>

NextConcurrent ==
    \/ Tick
    \/ \E r \in Workers : Begin(r)
    \/ \E r \in Workers : Write(r)
    \/ \E r \in Workers : Finish(r)

SpecConcurrent == Init /\ [][NextConcurrent]_vars

Executing(r) == runs[r].pc \notin {"idle", "done"}

(* C14: any two runs that execute at the same time have different run      *)
(* identifiers and share no temp path.                                     *)
C14_ConcurrentRunsShareNothing ==
    \A r1, r2 \in Workers :
        (r1 # r2 /\ Executing(r1) /\ Executing(r2)) =>
            /\ runs[r1].timestamp # runs[r2].timestamp
            /\ runs[r1].paths \cap runs[r2].paths = {}

\* Two runs that read the clock in different milliseconds share no temp path.
C14_DistinctTimestampsShareNothing ==
    \A r1, r2 \in Workers :
        (r1 # r2 /\ runs[r1].timestamp # runs[r2].timestamp) =>
            runs[r1].paths \cap runs[r2].paths = {}

====
